---- MODULE Spec2Model ----
(***************************************************************************)
(* To-Do-App.py: a task table in an SQLite file (persistence layer) and    *)
(* the window that edits it (presentation layer).                          *)
(*                                                                         *)
(* Text is a sequence of one-character strings, so that substring search,  *)
(* SQL LIKE and str.strip() are computed character by character.           *)
(***************************************************************************)
EXTENDS Integers, Sequences, FiniteSets, TLC

\* ------------------------------------------------------------------ bounds
MaxIds == 2              \* rows ever inserted by direct calls
MaxCards == 2            \* rows ever inserted from the window's form
MaxTicks == 2            \* clock readings after the first
TicksPerSecond == 2      \* clock resolution below the stored second

\* ------------------------------------------------------------------ values
\* SQL NULL / Python None for a text column: no text at all (not the empty text).
NULL == <<"NULL">>
\* Python None for selected_task_id and pulse_after_id. Row ids start at 1 and
\* the code tests both with `if self.x:`, for which 0 and None agree.
None == 0

VARIABLES
    db,           \* todo.db: [TODO: the rows of table TODO,
                  \*           sqlite_sequence: largest rowid AUTOINCREMENT handed out]
    utcnow,       \* the clock, in ticks
    result,       \* what the last direct call of the persistence layer returned
    app,          \* the ToDoApp window: its fields and the content of its widgets
    messagebox,   \* the modal box the last handler showed ("" when it showed none)
    csv_files     \* the files export has written: path -> content (NULL: no such file)

vars == <<db, utcnow, result, app, messagebox, csv_files>>

\* ------------------------------------------------------------------ text helpers
RECURSIVE lstrip(_)
lstrip(s) == IF s # <<>> /\ Head(s) = " " THEN lstrip(Tail(s)) ELSE s

RECURSIVE rstrip(_)
rstrip(s) ==
    IF s # <<>> /\ s[Len(s)] = " " THEN rstrip(SubSeq(s, 1, Len(s) - 1)) ELSE s

\* str.strip()
strip(s) == rstrip(lstrip(s))

\* Python truthiness of an optional text: None and "" are falsy.
Truthy(s) == s # NULL /\ s # <<>>

\* text contains sub as a literal, case-sensitive substring
Contains(text, sub) ==
    \E i \in 1..(Len(text) + 1) :
        /\ i + Len(sub) - 1 <= Len(text)
        /\ SubSeq(text, i, i + Len(sub) - 1) = sub

\* SQLite's LIKE folds the ASCII letters.
Fold(c) ==
    CASE c = "A" -> "a"
      [] c = "B" -> "b"
      [] OTHER -> c

\* SQLite's LIKE: % matches any run of characters, _ matches any one character,
\* any other character matches itself up to ASCII case.
RECURSIVE Like(_, _)
Like(text, pattern) ==
    IF pattern = <<>> THEN text = <<>>
    ELSE IF Head(pattern) = "%"
         THEN Like(text, Tail(pattern)) \/ (text # <<>> /\ Like(Tail(text), pattern))
         ELSE /\ text # <<>>
              /\ (Head(pattern) = "_" \/ Fold(Head(pattern)) = Fold(Head(text)))
              /\ Like(Tail(text), Tail(pattern))

\* `col LIKE ?` as a WHERE condition: NULL LIKE ? is NULL, which is not true.
WhereLike(col, pattern) == col # NULL /\ Like(col, pattern)

\* ------------------------------------------------------------------ persistence layer
\* Each function opens the file, runs one statement and closes it: it is a
\* function of the file's content d (and returns the new content when it writes).

Ids(d) == {r.id : r \in d.TODO}

SetMax(S) == CHOOSE m \in S : \A x \in S : x <= m

\* Faulty variant: INTEGER PRIMARY KEY without AUTOINCREMENT: one more than the largest
\* rowid now in the table
NextRowid_NoAutoincrement(d) == SetMax({0} \cup Ids(d)) + 1

\* INTEGER PRIMARY KEY AUTOINCREMENT: one more than the largest rowid ever used.
NextRowid(d) == SetMax({d.sqlite_sequence} \cup Ids(d)) + 1

\* CREATE TABLE IF NOT EXISTS on a new file
init_db == [TODO |-> {}, sqlite_sequence |-> 0]

\* datetime.utcnow().isoformat(timespec='seconds'): the reading cut to whole
\* seconds; fixed-width ISO text compares as the second count does.
isoformat_seconds(t) == t \div TicksPerSecond

\* Faulty variant: created_at read once, when the module is loaded
add_task_StaleClock(d, now, name, description, due_date, priority) ==
    [TODO |-> d.TODO \cup
        {[id |-> NextRowid(d),
          name |-> name,
          description |-> description,
          completed |-> 0,
          created_at |-> isoformat_seconds(0),
          due_date |-> IF Truthy(due_date) THEN due_date ELSE NULL,
          priority |-> priority]},
     sqlite_sequence |-> NextRowid(d)]

add_task(d, now, name, description, due_date, priority) ==
    [TODO |-> d.TODO \cup
        {[id |-> NextRowid(d),
          name |-> name,
          description |-> description,
          completed |-> 0,
          created_at |-> isoformat_seconds(now),
          due_date |-> IF Truthy(due_date) THEN due_date ELSE NULL,
          priority |-> priority]},
     sqlite_sequence |-> NextRowid(d)]

\* Faulty variant: High (1) first: priority ascending
ORDER_MAP_PriorityAscending ==
    [k \in {"priority,created_at", "created_at", "priority"} |->
        CASE k = "priority,created_at" -> <<<<"priority", "ASC">>, <<"created_at", "DESC">>>>
          [] k = "created_at" -> <<<<"created_at", "DESC">>>>
          [] k = "priority" -> <<<<"priority", "ASC">>>>]

\* An ORDER BY clause is the list of its terms, <<column, direction>>.
ORDER_MAP ==
    [k \in {"priority,created_at", "created_at", "priority"} |->
        CASE k = "priority,created_at" -> <<<<"priority", "DESC">>, <<"created_at", "DESC">>>>
          [] k = "created_at" -> <<<<"created_at", "DESC">>>>
          [] k = "priority" -> <<<<"priority", "DESC">>>>]

\* ORDER BY: row a may come directly before row b when the first term on which
\* they differ puts a first; rows equal on every term may come either way round.
RECURSIVE InOrder(_, _, _)
InOrder(a, b, order_by) ==
    IF order_by = <<>> THEN TRUE
    ELSE LET col == Head(order_by)[1]
             dir == Head(order_by)[2]
         IN IF a[col] = b[col]
            THEN InOrder(a, b, Tail(order_by))
            ELSE IF dir = "DESC" THEN a[col] > b[col] ELSE a[col] < b[col]

\* the rows the WHERE clause of get_tasks keeps
Where(d, filter_text) ==
    IF filter_text # <<>>
    THEN LET like == <<"%">> \o filter_text \o <<"%">>
         IN {r \in d.TODO : WhereLike(r.name, like) \/ WhereLike(r.description, like)}
    ELSE d.TODO

\* every list cur.fetchall() may return: the kept rows, each once, in an order
\* the ORDER BY clause allows (rows that tie may come either way round)
get_tasks(d, filter_text, order_by) ==
    LET S == Where(d, filter_text)
        n == Cardinality(S)
    IN {rows \in [1..n -> S] :
            /\ \A i, j \in 1..n : i # j => rows[i] # rows[j]
            /\ \A i \in 1..(n - 1) : InOrder(rows[i], rows[i + 1], order_by)}

\* cur.fetchone(): the row, or None (here: the rows found, at most one)
get_task_by_id(d, task_id) == {r \in d.TODO : r.id = task_id}

\* Faulty variant: UPDATE without its WHERE clause
update_task_NoWhere(d, task_id, name, description, due_date, priority) ==
    [d EXCEPT !.TODO =
        {[r EXCEPT !.name = name,
                   !.description = description,
                   !.due_date = IF Truthy(due_date) THEN due_date ELSE NULL,
                   !.priority = priority] : r \in d.TODO}]

update_task(d, task_id, name, description, due_date, priority) ==
    [d EXCEPT !.TODO =
        {IF r.id = task_id
         THEN [r EXCEPT !.name = name,
                        !.description = description,
                        !.due_date = IF Truthy(due_date) THEN due_date ELSE NULL,
                        !.priority = priority]
         ELSE r : r \in d.TODO}]

delete_task(d, task_id) ==
    [d EXCEPT !.TODO = {r \in d.TODO : r.id # task_id}]

\* Faulty variant: marks done instead of flipping
toggle_completed_MarkDone(d, task_id) ==
    [d EXCEPT !.TODO =
        {IF r.id = task_id THEN [r EXCEPT !.completed = 1] ELSE r : r \in d.TODO}]

toggle_completed(d, task_id) ==
    [d EXCEPT !.TODO =
        {IF r.id = task_id
         THEN [r EXCEPT !.completed = IF r.completed = 0 THEN 1 ELSE 0]
         ELSE r : r \in d.TODO}]

\* ------------------------------------------------------------------ export
\* str() of an integer
Digit(n) ==
    CASE n = 0 -> "0" [] n = 1 -> "1" [] n = 2 -> "2" [] n = 3 -> "3" [] n = 4 -> "4"
      [] n = 5 -> "5" [] n = 6 -> "6" [] n = 7 -> "7" [] n = 8 -> "8" [] n = 9 -> "9"

RECURSIVE str(_)
str(n) ==
    IF n < 0 THEN <<"-">> \o str(0 - n)
    ELSE IF n < 10 THEN <<Digit(n)>>
    ELSE str(n \div 10) \o <<Digit(n % 10)>>

\* list(t) as csv.writer takes it: a number as str() gives it, None as the empty
\* text. created_at is ISO text of fixed width without a special character;
\* it is written here as its count of seconds.
row_texts(t) ==
    <<str(t.id),
      t.name,
      IF t.description = NULL THEN <<>> ELSE t.description,
      str(t.completed),
      str(t.created_at),
      IF t.due_date = NULL THEN <<>> ELSE t.due_date,
      str(t.priority)>>

\* the header row
CsvHeader ==
    << <<"i", "d">>, <<"n", "a", "m", "e">>,
       <<"d", "e", "s", "c", "r", "i", "p", "t", "i", "o", "n">>,
       <<"c", "o", "m", "p", "l", "e", "t", "e", "d">>,
       <<"c", "r", "e", "a", "t", "e", "d", "_", "a", "t">>,
       <<"d", "u", "e", "_", "d", "a", "t", "e">>,
       <<"p", "r", "i", "o", "r", "i", "t", "y">> >>

RECURSIVE doublequote(_)
doublequote(s) ==
    IF s = <<>> THEN <<>>
    ELSE (IF Head(s) = "\"" THEN <<"\"", "\"">> ELSE <<Head(s)>>) \o doublequote(Tail(s))

\* Faulty variant: a writer that never quotes
csv_field_NoQuoting(s) == s

\* csv.writer's excel dialect, QUOTE_MINIMAL: a field holding the delimiter, the
\* quote character or a character of the line terminator is quoted, its quotes doubled
csv_field(s) ==
    IF \E i \in 1..Len(s) : s[i] \in {",", "\"", "\r", "\n"}
    THEN <<"\"">> \o doublequote(s) \o <<"\"">>
    ELSE s

RECURSIVE writerow(_)
writerow(fields) ==
    IF Len(fields) = 1 THEN csv_field(fields[1]) \o <<"\r", "\n">>
    ELSE csv_field(Head(fields)) \o <<",">> \o writerow(Tail(fields))

RECURSIVE writerows(_)
writerows(tasks) ==
    IF tasks = <<>> THEN <<>>
    ELSE writerow(row_texts(Head(tasks))) \o writerows(Tail(tasks))

\* the paths the save dialog may give
Paths == {"tasks.csv"}

\* export_tasks_to_csv: what it may leave and return, one outcome per list the
\* query may return. When open() raises (writable = FALSE) the file is as it was.
export_tasks_to_csv(d, files, filepath, writable) ==
    {IF writable
     THEN [files |-> [files EXCEPT ![filepath] = writerow(CsvHeader) \o writerows(tasks)],
           ok |-> TRUE,
           msg |-> "Exported " \o ToString(Len(tasks)) \o " tasks to " \o filepath]
     ELSE [files |-> files,
           ok |-> FALSE,
           msg |-> "[Errno 13] Permission denied: '" \o filepath \o "'"] :
        tasks \in get_tasks(d, <<>>, ORDER_MAP["priority,created_at"])}

\* ------------------------------------------------------------------ direct calls
\* The persistence functions called by any caller of the module, outside the window.

NoReturn ==
    [call |-> "", filter_text |-> <<>>, order_by |-> <<>>, task_id |-> None, rows |-> <<>>]

call_add_task(name, description, due_date, priority) ==
    /\ db' = add_task(db, utcnow, name, description, due_date, priority)
    /\ result' = NoReturn
    /\ UNCHANGED <<csv_files, utcnow, app, messagebox>>

call_update_task(task_id, name, description, due_date, priority) ==
    /\ db' = update_task(db, task_id, name, description, due_date, priority)
    /\ result' = NoReturn
    /\ UNCHANGED <<csv_files, utcnow, app, messagebox>>

call_delete_task(task_id) ==
    /\ db' = delete_task(db, task_id)
    /\ result' = NoReturn
    /\ UNCHANGED <<csv_files, utcnow, app, messagebox>>

call_toggle_completed(task_id) ==
    /\ db' = toggle_completed(db, task_id)
    /\ result' = NoReturn
    /\ UNCHANGED <<csv_files, utcnow, app, messagebox>>

call_get_tasks(filter_text, order_by) ==
    /\ \E rows \in get_tasks(db, filter_text, order_by) :
          result' = [call |-> "get_tasks", filter_text |-> filter_text,
                     order_by |-> order_by, task_id |-> None, rows |-> rows]
    /\ UNCHANGED <<csv_files, db, utcnow, app, messagebox>>

call_get_task_by_id(task_id) ==
    /\ \E rows \in IF get_task_by_id(db, task_id) = {}
                   THEN {<<>>}
                   ELSE {<<r>> : r \in get_task_by_id(db, task_id)} :
          result' = [call |-> "get_task_by_id", filter_text |-> <<>>,
                     order_by |-> <<>>, task_id |-> task_id, rows |-> rows]
    /\ UNCHANGED <<csv_files, db, utcnow, app, messagebox>>

\* time passes
Tick ==
    /\ utcnow' = utcnow + 1
    /\ UNCHANGED <<csv_files, db, result, app, messagebox>>

\* ------------------------------------------------------------------ palettes
LIGHT == [card |-> "#e1edff", text |-> "#06234a", muted |-> "#58606b"]
DARK == [card |-> "#102230", text |-> "#e6eef9", muted |-> "#9aa4b2"]

PRIORITY_LIGHT == [p \in {1, 2, 3} |->
    CASE p = 1 -> "#fff1f0" [] p = 2 -> "#fff8e6" [] p = 3 -> "#effaf1"]
PRIORITY_DARK == [p \in {1, 2, 3} |->
    CASE p = 1 -> "#4c1111" [] p = 2 -> "#664900" [] p = 3 -> "#0f5132"]

\* dict.get(p, default) on the theme's table
get_priority_bg(priority, is_dark) ==
    IF is_dark
    THEN IF priority \in DOMAIN PRIORITY_DARK THEN PRIORITY_DARK[priority] ELSE DARK.card
    ELSE IF priority \in DOMAIN PRIORITY_LIGHT THEN PRIORITY_LIGHT[priority] ELSE LIGHT.card

\* "N - Label", the text of an option of the priority menus, as <<N, Label>>
PriorityLabel(p) ==
    <<p, IF p = 1 THEN "High" ELSE IF p = 2 THEN "Medium" ELSE "Low">>

\* int(text.split(" - ")[0])
ParsePriority(label) == label[1]

\* ------------------------------------------------------------------ the window
\* A handler is a function from the window w (and the file's content d) to the
\* window it leaves.

\* selection pulse
steps == 6

NoPulse(w) ==
    [w EXCEPT !.pulse_after_id = None, !.pulse_target = 0, !.pulse_live = FALSE,
              !.pulse_base = "", !.pulse_color = ""]

\* step(i) of animate_selection: paints the target (when the widget still
\* exists; safe_configure swallows the error otherwise) and arms step(i + 1)
step(w, i) ==
    LET colour == IF i % 2 = 0 THEN w.pulse_color ELSE w.pulse_base
        painted == IF w.pulse_live
                   THEN [w EXCEPT !.task_card_widgets[w.pulse_target].fg_color = colour]
                   ELSE w
        next_i == i + 1
    IN IF next_i <= steps
       THEN [painted EXCEPT !.pulse_after_id = next_i]
       ELSE NoPulse(painted)

animate_selection(w, task_id) ==
    LET cancelled == NoPulse(w)
        found == {i \in 1..Len(w.task_card_widgets) : w.task_card_widgets[i].tid = task_id}
    IN IF found = {}
       THEN cancelled
       ELSE LET target == CHOOSE i \in found : \A j \in found : i <= j
                is_dark == w.appearance_mode = "dark"
            IN step([cancelled EXCEPT
                        !.pulse_target = target,
                        !.pulse_live = TRUE,
                        !.pulse_base = w.task_card_widgets[target].fg_color,
                        !.pulse_color = IF ~is_dark THEN "#a8d1ff" ELSE "#163144"],
                    0)

clear_details(w) ==
    [w EXCEPT !.selected_task_id = None,
              !.details_name = <<>>,
              !.details_desc = <<>>,
              !.details_desc_state = "disabled",
              !.details_due = <<>>,
              !.details_priority = PriorityLabel(2),
              !.details_meta = <<>>]

on_task_selected(w, d, task_id) ==
    IF get_task_by_id(d, task_id) = {}
    THEN w
    ELSE LET task == CHOOSE r \in get_task_by_id(d, task_id) : TRUE
         IN animate_selection(
                [w EXCEPT !.selected_task_id = task_id,
                          !.details_name = task.name,
                          !.details_desc = IF Truthy(task.description)
                                           THEN task.description ELSE <<>>,
                          !.details_desc_state = "normal",
                          !.details_due = IF Truthy(task.due_date)
                                          THEN task.due_date ELSE <<>>,
                          !.details_priority = PriorityLabel(task.priority),
                          !.details_meta = <<task.created_at,
                                             IF task.completed # 0 THEN "Yes" ELSE "No">>],
                task_id)

\* the cards of one reload, in the order of the rows fetched; meta_priority is
\* the N of the card's "Priority: N"
Cards(rows, is_dark) ==
    [i \in 1..Len(rows) |->
        [tid |-> rows[i].id,
         fg_color |-> get_priority_bg(rows[i].priority, is_dark),
         meta_priority |-> rows[i].priority]]

\* Faulty variant: the selection is kept only while its card is in the list
Render_ClearsHidden(w, d, rows) ==
    LET rebuilt == [w EXCEPT !.task_card_widgets = Cards(rows, w.appearance_mode = "dark"),
                             !.pulse_live = FALSE]
    IN IF w.selected_task_id # None
       THEN IF \E i \in 1..Len(rows) : rows[i].id = w.selected_task_id
            THEN on_task_selected(rebuilt, d, w.selected_task_id)
            ELSE clear_details(rebuilt)
       ELSE rebuilt

\* refresh_tasks once the rows are fetched
Render(w, d, rows) ==
    LET rebuilt == [w EXCEPT !.task_card_widgets = Cards(rows, w.appearance_mode = "dark"),
                             !.pulse_live = FALSE]
    IN IF w.selected_task_id # None
       THEN IF get_task_by_id(d, w.selected_task_id) # {}
            THEN on_task_selected(rebuilt, d, w.selected_task_id)
            ELSE clear_details(rebuilt)
       ELSE rebuilt

\* ORDER_MAP.get(order_key, ORDER_MAP["priority,created_at"])
OrderClause(order_key) ==
    IF order_key \in DOMAIN ORDER_MAP
    THEN ORDER_MAP[order_key]
    ELSE ORDER_MAP["priority,created_at"]

\* the windows refresh_tasks may leave: one per list the query may return
refresh_tasks(w, d) ==
    {Render(w, d, rows) :
        rows \in get_tasks(d, strip(w.search_var), OrderClause(w.order_var))}

\* ToDoApp.__init__ up to build_ui
Built ==
    [selected_task_id |-> None,
     task_card_widgets |-> <<>>,
     pulse_after_id |-> None,
     pulse_target |-> 0,
     pulse_live |-> FALSE,
     pulse_base |-> "",
     pulse_color |-> "",
     dark_mode_var |-> FALSE,
     appearance_mode |-> "light",
     search_var |-> <<>>,
     order_var |-> "priority,created_at",
     details_name |-> <<>>,
     details_desc |-> <<>>,
     details_desc_state |-> "normal",
     details_due |-> <<>>,
     details_priority |-> PriorityLabel(2),
     details_meta |-> <<>>]

Init ==
    /\ db = init_db
    /\ utcnow = 0
    /\ result = NoReturn
    /\ app \in refresh_tasks(Built, init_db)
    /\ messagebox = ""
    /\ csv_files = [p \in Paths |-> NULL]

\* ------------------------------------------------------------------ handlers
\* One action per event: the whole handler, its reload included. The content of
\* the add form's entries is what the user has typed when the button is pressed.

\* Faulty variant: the form without its check of the name
add_task_from_form_NoValidation(entry_name, entry_desc, entry_due, priority_opt) ==
    LET name == strip(entry_name)
        desc == strip(entry_desc)
        due == strip(entry_due)
        priority == ParsePriority(priority_opt)
        d1 == add_task(db, utcnow, name, desc, IF Truthy(due) THEN due ELSE NULL, priority)
    IN /\ db' = d1
       /\ app' \in refresh_tasks(app, d1)
       /\ messagebox' = ""
       /\ UNCHANGED <<csv_files, utcnow, result>>

add_task_from_form(entry_name, entry_desc, entry_due, priority_opt) ==
    LET name == strip(entry_name)
        desc == strip(entry_desc)
        due == strip(entry_due)
        priority == ParsePriority(priority_opt)
        d1 == add_task(db, utcnow, name, desc, IF Truthy(due) THEN due ELSE NULL, priority)
    IN IF name = <<>>
       THEN /\ messagebox' = "showwarning: Task name is required."
            /\ UNCHANGED <<csv_files, db, utcnow, result, app>>
       ELSE /\ db' = d1
            /\ app' \in refresh_tasks(app, d1)
            /\ messagebox' = ""
            /\ UNCHANGED <<csv_files, utcnow, result>>

\* the "View" button of a card
view_btn(task_id) ==
    /\ app' = on_task_selected(app, db, task_id)
    /\ messagebox' = ""
    /\ UNCHANGED <<csv_files, db, utcnow, result>>

save_selected_task ==
    LET name == strip(app.details_name)
        desc == strip(app.details_desc)
        due == strip(app.details_due)
        priority == ParsePriority(app.details_priority)
        d1 == update_task(db, app.selected_task_id, name, desc,
                          IF Truthy(due) THEN due ELSE NULL, priority)
    IN IF app.selected_task_id = None
       THEN /\ messagebox' = "showinfo: Select a task first or use Add Task on the left to create."
            /\ UNCHANGED <<csv_files, db, utcnow, result, app>>
       ELSE IF name = <<>>
       THEN /\ messagebox' = "showwarning: Task name is required."
            /\ UNCHANGED <<csv_files, db, utcnow, result, app>>
       ELSE /\ db' = d1
            /\ messagebox' = "showinfo: Task updated."
            /\ app' \in refresh_tasks(clear_details(app), d1)
            /\ UNCHANGED <<csv_files, utcnow, result>>

\* askyesno is the user's answer to "Delete selected task?"
delete_selected_task(askyesno) ==
    LET d1 == delete_task(db, app.selected_task_id)
    IN IF app.selected_task_id = None
       THEN /\ messagebox' = "showinfo: No task selected."
            /\ UNCHANGED <<csv_files, db, utcnow, result, app>>
       ELSE IF askyesno
       THEN /\ db' = d1
            /\ app' \in refresh_tasks(clear_details(app), d1)
            /\ messagebox' = ""
            /\ UNCHANGED <<csv_files, utcnow, result>>
       ELSE /\ messagebox' = ""
            /\ UNCHANGED <<csv_files, db, utcnow, result, app>>

\* the "Delete" button of a card
delete_and_reload(task_id, askyesno) ==
    LET d1 == delete_task(db, task_id)
    IN IF askyesno
       THEN /\ db' = d1
            /\ app' \in refresh_tasks(IF app.selected_task_id = task_id
                                      THEN clear_details(app) ELSE app, d1)
            /\ messagebox' = ""
            /\ UNCHANGED <<csv_files, utcnow, result>>
       ELSE /\ messagebox' = ""
            /\ UNCHANGED <<csv_files, db, utcnow, result, app>>

\* Faulty variant: the toggle without its clear_details
toggle_complete_and_reload_KeepsSelection(task_id) ==
    LET d1 == toggle_completed(db, task_id)
    IN /\ db' = d1
       /\ app' \in refresh_tasks(app, d1)
       /\ messagebox' = ""
       /\ UNCHANGED <<csv_files, utcnow, result>>

\* the "Mark Done" / "Mark Undone" button of a card
toggle_complete_and_reload(task_id) ==
    LET d1 == toggle_completed(db, task_id)
    IN /\ db' = d1
       /\ app' \in refresh_tasks(IF app.selected_task_id = task_id
                                 THEN clear_details(app) ELSE app, d1)
       /\ messagebox' = ""
       /\ UNCHANGED <<csv_files, utcnow, result>>

\* The controls that only reload the list. Each is the window it leaves, as a
\* function of the window and the file, and the action that takes it there.

\* a key released in the search entry, which then holds text
after_search(w, d, text) == refresh_tasks([w EXCEPT !.search_var = text], d)

search_entry(text) ==
    /\ UNCHANGED <<csv_files, db, utcnow, result>>
    /\ messagebox' = ""
    /\ app' \in after_search(app, db, text)

\* an option chosen in the order menu
after_order(w, d, order_key) == refresh_tasks([w EXCEPT !.order_var = order_key], d)

order_menu(order_key) ==
    /\ UNCHANGED <<csv_files, db, utcnow, result>>
    /\ messagebox' = ""
    /\ app' \in after_order(app, db, order_key)

refresh_btn ==
    /\ UNCHANGED <<csv_files, db, utcnow, result>>
    /\ messagebox' = ""
    /\ app' \in refresh_tasks(app, db)

\* apply_theme: the chrome's colours, then the reload
apply_theme(w, d) == refresh_tasks(w, d)

\* the switch flips dark_mode_var, then calls toggle_dark_mode
after_theme_switch(w, d) ==
    LET on == ~w.dark_mode_var
    IN apply_theme([w EXCEPT !.dark_mode_var = on,
                             !.appearance_mode = IF on THEN "dark" ELSE "light"], d)

toggle_dark_mode ==
    /\ UNCHANGED <<csv_files, db, utcnow, result>>
    /\ messagebox' = ""
    /\ app' \in after_theme_switch(app, db)

\* the "Export CSV" button; asksaveasfilename is the path the dialog gives ("" when
\* the user cancels it), writable whether open() succeeds on it
export_csv_dialog(asksaveasfilename, writable) ==
    IF asksaveasfilename = ""
    THEN UNCHANGED vars
    ELSE /\ UNCHANGED <<db, utcnow, result, app>>
         /\ \E o \in export_tasks_to_csv(db, csv_files, asksaveasfilename, writable) :
               /\ csv_files' = o.files
               /\ messagebox' = (IF o.ok THEN "showinfo: " ELSE "showerror: ") \o o.msg

\* the user edits the details panel: its name entry, its priority menu (the
\* description and the due date stay as the selection filled them)
type_details_name(text) ==
    /\ app.details_name # text
    /\ app' = [app EXCEPT !.details_name = text]
    /\ UNCHANGED <<csv_files, db, utcnow, result, messagebox>>

pick_details_priority(label) ==
    /\ app.details_priority # label
    /\ app' = [app EXCEPT !.details_priority = label]
    /\ UNCHANGED <<csv_files, db, utcnow, result, messagebox>>

\* the timer fires the armed step of the pulse
pulse_timer ==
    /\ app.pulse_after_id # None
    /\ app' = step(app, app.pulse_after_id)
    /\ UNCHANGED <<csv_files, db, utcnow, result, messagebox>>

\* another connection to todo.db deletes a row (the file is shared storage)
other_connection_delete(task_id) ==
    /\ task_id \in Ids(db)
    /\ db' = delete_task(db, task_id)
    /\ UNCHANGED <<csv_files, utcnow, result, app, messagebox>>

\* ------------------------------------------------------------------ inputs
CardIds == {app.task_card_widgets[i].tid : i \in 1..Len(app.task_card_widgets)}

\* what the user types as a task name: blank, padded
TypedNames == {<<" ">>, <<"a", " ">>}
\* what the user types in the search entry: nothing, a text no task name holds
TypedSearch == {<<>>, <<"b", " ">>}
MenuLabels == {PriorityLabel(1), PriorityLabel(2)}

\* arguments of direct calls: <<name, description, due_date, priority>>
AddArgs ==
    {<<<<"a">>, NULL, <<>>, 2>>,
     <<<<"a">>, <<"x">>, <<"d">>, 1>>,
     <<<<"a">>, <<>>, NULL, 3>>}
UpdateArgs ==
    {<<<<"b">>, <<"x">>, <<"d">>, 3>>,
     <<<<"a">>, <<>>, <<>>, 2>>}
Filters == {<<>>, <<"b">>}
IdRange == 1..(MaxIds + 1)

\* texts that tell a LIKE pattern from a literal substring
LikeNames == {<<"a", "b">>, <<"B">>, <<"_">>}
LikeDescriptions == {NULL, <<"5", "%">>}
LikeFilters == {<<>>, <<"b">>, <<"a", "b">>, <<"_">>, <<"%">>}

\* ------------------------------------------------------------------ specifications
\* An editing session in the window, as the design has it: one user, one
\* process. The pulse's timer is left out: its steps repaint one card and
\* re-arm themselves, and no handler of this session reads a card's colour.
Next ==
    \/ /\ db.sqlite_sequence < MaxCards
       /\ \E n \in TypedNames, p \in MenuLabels : add_task_from_form(n, <<>>, <<>>, p)
    \/ \E t \in CardIds : view_btn(t)
    \/ save_selected_task
    \/ \E yes \in BOOLEAN : delete_selected_task(yes)
    \/ \E t \in CardIds, yes \in BOOLEAN : delete_and_reload(t, yes)
    \/ \E t \in CardIds : toggle_complete_and_reload(t)
    \/ \E s \in TypedSearch : search_entry(s)
    \/ \E n \in TypedNames : type_details_name(n)
    \/ \E p \in MenuLabels : pick_details_priority(p)

Spec == Init /\ [][Next]_vars

\* A browsing session: every control that only reloads the list, while another
\* connection to the shared file deletes rows.
NextReload ==
    \/ /\ db.sqlite_sequence < MaxCards
       /\ \E n \in {<<"a">>, <<"b">>} : add_task_from_form(n, <<>>, <<>>, PriorityLabel(2))
    \/ \E t \in CardIds : view_btn(t)
    \/ \E s \in TypedSearch : search_entry(s)
    \/ \E k \in DOMAIN ORDER_MAP : order_menu(k)
    \/ refresh_btn
    \/ toggle_dark_mode
    \/ pulse_timer
    \/ \E t \in Ids(db) : other_connection_delete(t)

SpecReload == Init /\ [][NextReload]_vars

\* The persistence layer under direct calls, the window idle.
NextStore ==
    \/ /\ db.sqlite_sequence < MaxIds
       /\ \E a \in AddArgs : call_add_task(a[1], a[2], a[3], a[4])
    \/ \E i \in IdRange, a \in UpdateArgs : call_update_task(i, a[1], a[2], a[3], a[4])
    \/ \E i \in IdRange : call_delete_task(i)
    \/ \E i \in IdRange : call_toggle_completed(i)
    \/ \E f \in Filters, k \in DOMAIN ORDER_MAP : call_get_tasks(f, ORDER_MAP[k])
    \/ \E i \in IdRange : call_get_task_by_id(i)
    \/ utcnow < MaxTicks /\ Tick

SpecStore == Init /\ [][NextStore]_vars

\* The list query under direct calls, over texts that hold LIKE's wildcards.
NextFilter ==
    \/ /\ db.sqlite_sequence < MaxIds
       /\ \E n \in LikeNames, d \in LikeDescriptions : call_add_task(n, d, NULL, 2)
    \/ \E i \in IdRange : call_delete_task(i)
    \/ \E f \in LikeFilters : call_get_tasks(f, ORDER_MAP["priority,created_at"])

SpecFilter == Init /\ [][NextFilter]_vars

\* names with and without the characters csv.writer quotes
ExportNames == {<<"a">>, <<"b", ",", "\"">>}

\* An export session: tasks are added, the first one is completed, the list is
\* filtered and reordered, and the list is exported.
NextExport ==
    \/ /\ db.sqlite_sequence < MaxCards
       /\ \E n \in ExportNames : add_task_from_form(n, <<>>, <<>>, PriorityLabel(2))
    \/ \E t \in CardIds \cap {1} : toggle_complete_and_reload(t)
    \/ \E s \in TypedSearch : search_entry(s)
    \/ \E k \in {"priority,created_at", "created_at"} : order_menu(k)
    \/ \E p \in Paths \cup {""}, writable \in BOOLEAN : export_csv_dialog(p, writable)

SpecExport == Init /\ [][NextExport]_vars

\* A session of selections in which the user lets every pulse run out: an
\* event of the user comes only while no step of a pulse is armed. The timer
\* fires an armed step after its interval (Tk's after), hence the fairness.
NextPulse ==
    \/ /\ app.pulse_after_id = None
       /\ db.sqlite_sequence < MaxCards
       /\ \E p \in MenuLabels : add_task_from_form(<<"a">>, <<>>, <<>>, p)
    \/ /\ app.pulse_after_id = None
       /\ \E t \in CardIds : view_btn(t)
    \/ /\ app.pulse_after_id = None
       /\ toggle_dark_mode
    \/ pulse_timer

SpecPulse == Init /\ [][NextPulse]_vars /\ WF_vars(pulse_timer)

\* priorities a direct call may store: the table has no check of the range
StoredPriorities == {0, 2, 5}

\* The window over a table that another caller of the module fills.
NextPriority ==
    \/ /\ db.sqlite_sequence < MaxIds
       /\ \E p \in StoredPriorities : call_add_task(<<"a">>, NULL, NULL, p)
    \/ refresh_btn
    \/ \E t \in CardIds : view_btn(t)
    \/ toggle_dark_mode

SpecPriority == Init /\ [][NextPriority]_vars

\* ------------------------------------------------------------------ properties
RowsOf(rows) == {rows[i] : i \in 1..Len(rows)}

\* the row holds text as a literal substring of its name or of its description
HoldsLiteral(r, text) ==
    Contains(r.name, text) \/ (r.description # NULL /\ Contains(r.description, text))

\* C1: get_tasks(filter_text) returns exactly the tasks whose name or description
\* contains filter_text as a literal, case-sensitive substring (every task when
\* filter_text is empty), also for '%', '_' and texts that differ only in case.
C1_ListIsLiteralSubstringMatch ==
    result.call = "get_tasks" =>
        RowsOf(result.rows) = {r \in db.TODO : HoldsLiteral(r, result.filter_text)}

\* task i is absent: get_task_by_id finds nothing and no list, under any filter
\* and any allow-listed order, holds it
Gone(d, i) ==
    /\ get_task_by_id(d, i) = {}
    /\ \A f \in Filters, k \in DOMAIN ORDER_MAP :
          \A rows \in get_tasks(d, f, ORDER_MAP[k]) :
              \A j \in 1..Len(rows) : rows[j].id # i

\* C2: once a task is deleted, get-by-id finds nothing and no list holds it, in
\* every later state: an identifier handed out and no longer in the table never
\* comes back, whatever is created, updated, toggled or deleted afterwards; and
\* deleting an absent identifier leaves the file as it was.
C2_DeletedStaysAbsent ==
    /\ [](\A i \in IdRange :
            /\ Gone(delete_task(db, i), i)
            /\ i \notin Ids(db) => delete_task(db, i) = db
            /\ i \in Ids(db) => i <= db.sqlite_sequence)
    /\ [][\A i \in IdRange :
            (i <= db.sqlite_sequence /\ i \notin Ids(db)) => Gone(db', i)]_vars

\* a task was deleted, a later one created, and a list fetched that holds the later one
C2_Witness ==
    /\ 1 \notin Ids(db)
    /\ 2 \in Ids(db)
    /\ result.call = "get_tasks"
    /\ result.rows # <<>>

\* what one add_task does to the file: one more row, under a fresh identifier,
\* not completed, created now, holding the given values with due_date stored
\* as stored_due; every other row untouched
Added(d, d2, now, name, description, stored_due, priority) ==
    /\ Cardinality(d2.TODO) = Cardinality(d.TODO) + 1
    /\ d.TODO \subseteq d2.TODO
    /\ \A r \in d2.TODO \ d.TODO :
          /\ r.id \notin Ids(d)
          /\ r.completed = 0
          /\ r.name = name
          /\ r.description = description
          /\ r.due_date = stored_due
          /\ r.priority = priority
          /\ r.created_at = now \div TicksPerSecond

\* C3 as stated: create with a non-empty name adds exactly one row, with a fresh
\* identifier, completed = false, created_at the moment of creation and the
\* given name, description, due_date and priority; the other rows are unchanged.
C3_CreateStoresGivenValues ==
    [][\A a \in AddArgs :
          (a[1] # <<>> /\ db' = add_task(db, utcnow, a[1], a[2], a[3], a[4])) =>
              Added(db, db', utcnow, a[1], a[2], a[3], a[4])]_vars

\* C3 as amended: the same, except that an empty due_date is stored as absent.
C3_CreateStoresNormalisedDue ==
    [][\A a \in AddArgs :
          (a[1] # <<>> /\ db' = add_task(db, utcnow, a[1], a[2], a[3], a[4])) =>
              Added(db, db', utcnow, a[1], a[2],
                    IF a[3] = <<>> THEN NULL ELSE a[3], a[4])]_vars

\* a row created with an empty due_date, after the clock reached its second second
C3_Witness ==
    \E r \in db.TODO : r.due_date = NULL /\ r.description = NULL /\ r.created_at > 0

\* C4: update changes only name, description, due_date and priority of the one
\* row with that identifier (its id, completed and created_at stay, as does every
\* other row); with no such row the file stays as it was. So identifiers are
\* pairwise distinct in every state and created_at never changes after insertion.
C4_UpdateTouchesOnlyMutableFields ==
    /\ [](/\ \A r1, r2 \in db.TODO : r1.id = r2.id => r1 = r2
          /\ \A i \in IdRange, a \in UpdateArgs :
                LET d2 == update_task(db, i, a[1], a[2], a[3], a[4])
                IN /\ d2.sqlite_sequence = db.sqlite_sequence
                   /\ Cardinality(d2.TODO) = Cardinality(db.TODO)
                   /\ \A r \in db.TODO :
                         IF r.id = i
                         THEN \E r2 \in d2.TODO :
                                 /\ r2.id = r.id
                                 /\ r2.completed = r.completed
                                 /\ r2.created_at = r.created_at
                         ELSE r \in d2.TODO
                   /\ i \notin Ids(db) => d2 = db)
    /\ [][\A r \in db.TODO, r2 \in db'.TODO :
            r.id = r2.id => r.created_at = r2.created_at]_vars

\* an updated row that was completed before, beside a row left as created
C4_Witness ==
    \E r1, r2 \in db.TODO :
        /\ r1.name = <<"b">> /\ r1.completed = 1
        /\ r2.name = <<"a">> /\ r2.id # r1.id

\* C5: under the default order "priority,created_at" the list is sorted by
\* descending priority and, among equal priorities, by descending creation time.
C5_DefaultOrderSorted ==
    /\ \A f \in Filters :
          \A rows \in get_tasks(db, f, ORDER_MAP["priority,created_at"]) :
              \A i \in 1..(Len(rows) - 1) :
                  \/ rows[i].priority > rows[i + 1].priority
                  \/ /\ rows[i].priority = rows[i + 1].priority
                     /\ rows[i].created_at >= rows[i + 1].created_at
    /\ (result.call = "get_tasks" /\ result.order_by = ORDER_MAP["priority,created_at"]) =>
          \A i \in 1..(Len(result.rows) - 1) :
              \/ result.rows[i].priority > result.rows[i + 1].priority
              \/ /\ result.rows[i].priority = result.rows[i + 1].priority
                 /\ result.rows[i].created_at >= result.rows[i + 1].created_at

\* a fetched list in the default order whose first row is the older one
C5_Witness ==
    /\ result.call = "get_tasks"
    /\ result.order_by = ORDER_MAP["priority,created_at"]
    /\ Len(result.rows) >= 2
    /\ result.rows[1].priority > result.rows[2].priority
    /\ result.rows[1].created_at < result.rows[2].created_at

\* C6: one toggle flips completed of that task and changes nothing else; two
\* toggles in a row give back the flag it started with.
C6_ToggleTwiceRestores ==
    \A i \in Ids(db) :
        LET once == toggle_completed(db, i)
            twice == toggle_completed(once, i)
        IN /\ twice = db
           /\ once.sqlite_sequence = db.sqlite_sequence
           /\ Cardinality(once.TODO) = Cardinality(db.TODO)
           /\ \A r \in db.TODO :
                 IF r.id = i
                 THEN [r EXCEPT !.completed = 1 - r.completed] \in once.TODO
                 ELSE r \in once.TODO

\* a completed task beside one that is not
C6_Witness ==
    \E r1, r2 \in db.TODO : r1.completed = 1 /\ r2.completed = 0

Warning == "showwarning: Task name is required."

\* C7: through the window's actions no task is ever stored with an empty name:
\* an add from the form, or a save, whose name is empty once trimmed is
\* rejected with the warning and leaves the file and the window as they were.
C7_NameRequired ==
    /\ [](\A r \in db.TODO : strip(r.name) # <<>>)
    /\ [][/\ \A n \in TypedNames, p \in MenuLabels :
                (strip(n) = <<>> /\ add_task_from_form(n, <<>>, <<>>, p)) =>
                    (messagebox' = Warning /\ db' = db /\ app' = app)
          /\ (app.selected_task_id # None /\ strip(app.details_name) = <<>>
                 /\ save_selected_task) =>
                    (messagebox' = Warning /\ db' = db /\ app' = app)]_vars

\* a save of the selected task was rejected for its blank name
C7_Witness ==
    /\ app.selected_task_id \in Ids(db)
    /\ app.details_name = <<" ">>
    /\ messagebox = Warning

KeptSelection ==
    IF app.selected_task_id # None /\ get_task_by_id(db, app.selected_task_id) # {}
    THEN app.selected_task_id
    ELSE None

\* C9: a reload by search, order menu, refresh button or theme switch keeps the
\* selection while the selected task is in the file (also when the filter hides
\* its card), clears it exactly when the task is no longer in the file, and
\* never changes the file.
C9_ReloadKeepsSelection ==
    /\ [](\A w \in (UNION {after_search(app, db, s) : s \in TypedSearch})
                   \cup (UNION {after_order(app, db, k) : k \in DOMAIN ORDER_MAP})
                   \cup refresh_tasks(app, db)
                   \cup after_theme_switch(app, db) :
             w.selected_task_id = KeptSelection)
    /\ [][db' # db =>
             /\ \A s \in TypedSearch : ~search_entry(s)
             /\ \A k \in DOMAIN ORDER_MAP : ~order_menu(k)
             /\ ~refresh_btn
             /\ ~toggle_dark_mode]_vars

\* the selected task is in the file and the search hides its card
C9_Witness ==
    /\ app.selected_task_id \in Ids(db)
    /\ app.selected_task_id \notin CardIds
    /\ strip(app.search_var) # <<>>

DetailsCleared ==
    /\ app.details_name = <<>>
    /\ app.details_desc = <<>>
    /\ app.details_due = <<>>
    /\ app.details_priority = PriorityLabel(2)
    /\ app.details_meta = <<>>

\* C10: whenever no task is selected, the initial state included, the details
\* panel is cleared and its description entry is disabled; the description
\* entry is enabled only while a task is selected.
C10_NoSelectionPanelDisabled ==
    /\ app.selected_task_id = None => (DetailsCleared /\ app.details_desc_state = "disabled")
    /\ app.details_desc_state = "normal" => app.selected_task_id # None

\* the k-th smallest element of a set of numbers
Kth(S, k) == CHOOSE x \in S : Cardinality({y \in S : y <= x}) = k

\* a quoted field without its quotes, the doubled quotes inside it single again
Unquoted(raw) ==
    IF raw # <<>> /\ raw[1] = "\""
    THEN LET inner == SubSeq(raw, 2, Len(raw) - 1)
             quotes == {j \in 1..Len(inner) : inner[j] = "\""}
             kept == {k \in 1..Len(inner) :
                         k \in quotes => Cardinality({j \in quotes : j <= k}) % 2 = 0}
         IN [m \in 1..Cardinality(kept) |-> inner[Kth(kept, m)]]
    ELSE raw

\* the positions of text that stand outside quotes: after an even number of
\* quote characters
Outside(text) ==
    LET quotes == {j \in 1..Len(text) : text[j] = "\""}
    IN {i \in 1..Len(text) : Cardinality({j \in quotes : j < i}) % 2 = 0}

\* the fields of one line: split at the commas outside quotes
Fields(line) ==
    LET outside == Outside(line)
        commas == {i \in outside : line[i] = ","}
        c == Cardinality(commas)
        at == [m \in 1..c |-> Kth(commas, m)]
    IN [m \in 1..(c + 1) |->
           Unquoted(SubSeq(line,
                           IF m = 1 THEN 1 ELSE at[m - 1] + 1,
                           IF m = c + 1 THEN Len(line) ELSE at[m] - 1))]

\* A CSV text as a reader takes it: its rows, each the list of its fields; a
\* row ends at a line terminator outside quotes.
ReadCsv(text) ==
    LET outside == Outside(text)
        ends == {i \in outside : i < Len(text) /\ text[i] = "\r" /\ text[i + 1] = "\n"}
        e == Cardinality(ends)
        at == [k \in 1..e |-> Kth(ends, k)]
    IN [k \in 1..e |->
           Fields(SubSeq(text, IF k = 1 THEN 1 ELSE at[k - 1] + 2, at[k] - 1))]

\* int() of a text of digits (-1 for any other text)
DigitValue(c) ==
    CASE c = "0" -> 0 [] c = "1" -> 1 [] c = "2" -> 2 [] c = "3" -> 3 [] c = "4" -> 4
      [] c = "5" -> 5 [] c = "6" -> 6 [] c = "7" -> 7 [] c = "8" -> 8 [] c = "9" -> 9
      [] OTHER -> -1

RECURSIVE int(_)
int(s) ==
    IF s = <<>> THEN -1
    ELSE IF DigitValue(s[Len(s)]) < 0 THEN -1
    ELSE IF Len(s) = 1 THEN DigitValue(s[1])
    ELSE LET high == int(SubSeq(s, 1, Len(s) - 1))
         IN IF high < 0 THEN -1 ELSE 10 * high + DigitValue(s[Len(s)])

\* the row read back holds the seven stored values of task r, in column order
\* (an absent description or due date is an empty field)
RowHolds(line, r) ==
    /\ Len(line) = 7
    /\ int(line[1]) = r.id
    /\ line[2] = r.name
    /\ line[3] = (IF r.description = NULL THEN <<>> ELSE r.description)
    /\ int(line[4]) = r.completed
    /\ int(line[5]) = r.created_at
    /\ line[6] = (IF r.due_date = NULL THEN <<>> ELSE r.due_date)
    /\ int(line[7]) = r.priority

\* the message of an export of n tasks to path
ExportedMessage(n, path) == "Exported " \o ToString(n) \o " tasks to " \o path

\* C11: export_tasks_to_csv on a writable path writes the header row and then
\* exactly one row per task in the file, whatever filter and order the window
\* shows, each row holding the task's seven stored values in column order; it
\* returns success and a message with the number of tasks, and leaves the
\* task table as it was.
C11_ExportWritesEveryTask ==
    /\ [](\A p \in Paths : \A o \in export_tasks_to_csv(db, csv_files, p, TRUE) :
             LET lines == ReadCsv(o.files[p])
             IN /\ o.ok
                /\ o.msg = ExportedMessage(Cardinality(db.TODO), p)
                /\ Len(lines) = 1 + Cardinality(db.TODO)
                /\ lines[1] = CsvHeader
                /\ \A r \in db.TODO : \E i \in 2..Len(lines) : RowHolds(lines[i], r))
    /\ [][\A p \in Paths :
             export_csv_dialog(p, TRUE) =>
                 /\ db' = db
                 /\ messagebox' = "showinfo: " \o ExportedMessage(Cardinality(db.TODO), p)
                 /\ Len(ReadCsv(csv_files'[p])) = 1 + Cardinality(db.TODO)]_vars

\* two tasks were exported, one of them completed and with a name the writer
\* quotes, while the search hid one of them in the window
C11_Witness ==
    /\ csv_files["tasks.csv"] # NULL
    /\ messagebox = "showinfo: " \o ExportedMessage(2, "tasks.csv")
    /\ Len(ReadCsv(csv_files["tasks.csv"])) = 3
    /\ \E r \in db.TODO : r.name = <<"b", ",", "\"">> /\ r.completed = 1
    /\ \A r \in db.TODO : \E i \in 2..3 : RowHolds(ReadCsv(csv_files["tasks.csv"])[i], r)
    /\ strip(app.search_var) # <<>>
    /\ Len(app.task_card_widgets) = 1

\* the cards of the selected task
SelectedCards ==
    {i \in 1..Len(app.task_card_widgets) :
        app.task_card_widgets[i].tid = app.selected_task_id}

\* the colour card i was built with: its task's priority colour in the window's theme
BaseColour(i) ==
    LET task == CHOOSE r \in db.TODO : r.id = app.task_card_widgets[i].tid
    IN get_priority_bg(task.priority, app.appearance_mode = "dark")

\* a pulse is running on the card of the selected task
Pulsing ==
    /\ app.selected_task_id # None
    /\ SelectedCards # {}
    /\ app.pulse_after_id # None

\* no step is armed and the selected task's card shows its base colour
Settled ==
    /\ app.pulse_after_id = None
    /\ \A i \in SelectedCards : app.task_card_widgets[i].fg_color = BaseColour(i)

\* C12: once a task is selected and its card is in the list, with no further
\* event of the user the pulse runs its fixed number of alternating steps and
\* stops: eventually no callback is pending and the card shows the base colour
\* it had before the pulse, not the pulse colour.
C12_PulseSettlesToBase == Pulsing ~> Settled

\* the colours a pulse paints a card with
PulseColours == {"#a8d1ff", "#163144"}

\* C13: a task whose stored priority is outside {1, 2, 3} is presented as
\* priority 2: its card shows "Priority: 2" on the Medium colour of the
\* current theme (or the colour of a selection pulse), and selecting it sets
\* the priority menu of the details panel to "2 - Medium".
C13_OutOfRangeShownAsMedium ==
    /\ \A i \in 1..Len(app.task_card_widgets) : \A r \in db.TODO :
          (r.id = app.task_card_widgets[i].tid /\ r.priority \notin {1, 2, 3}) =>
              /\ app.task_card_widgets[i].meta_priority = 2
              /\ app.task_card_widgets[i].fg_color \in
                     {get_priority_bg(2, app.appearance_mode = "dark")} \cup PulseColours
    /\ \A r \in db.TODO :
          (r.id = app.selected_task_id /\ r.priority \notin {1, 2, 3}) =>
              app.details_priority = PriorityLabel(2)

====
